---- MODULE Spec2Model ----
(***************************************************************************)
(* Model of the actuator connectors of OM1's ESP32 bridge:                 *)
(*   actions/motor/interface.py            MotorAction, MotorInput         *)
(*   actions/motor/connector/serial_control.py   SerialMotor               *)
(*   actions/motor/connector/wifi_control.py     WifiMotor                 *)
(* A transport handle is an object of an external library (pyserial,       *)
(* socket); its open, write and close may succeed or raise, which the      *)
(* actions draw from small outcome sets.                                   *)
(* and of the sensor inputs:                                               *)
(*   inputs/plugins/esp32_control.py       Esp32Control                    *)
(*   inputs/plugins/esp32_cam_video.py     Esp32CamVideo                   *)
(*   inputs/plugins/status_reporter.py     StatusReporter                  *)
(* Each plugin is an object of its own; a specification instantiates one   *)
(* and leaves the state of the others as constructed.                      *)
(***************************************************************************)
EXTENDS Integers, Sequences, FiniteSets, TLC

\* Bound on the number of underlying opens (serial.Serial / socket.socket)
\* each connector may attempt in one behaviour.
MaxOpens == 3

\* Bound on the number of lines input() returns to the operator-input thread.
MaxLines == 3

\* Bound on the number of frames the video source converts to Messages.
MaxFrames == 3

\* Bound on the number of poll cycles of the status source.
MaxStatus == 3

VARIABLES
    connector,      \* which connector the runtime configuration instantiated
    ser,            \* SerialMotor.ser: NoHandle or the id of the held Serial object
    ser_is_open,    \* self.ser.is_open of the held Serial object
    serOpenCalls,   \* number of serial.Serial(...) constructions so far
    sock,           \* WifiMotor.sock: NoHandle or the id of the held socket
    sock_is_open,   \* whether the held socket's descriptor is still open
    sockOpenCalls,  \* number of socket.socket(...) constructions so far
    call,           \* what the most recent call on the connector did
    running,        \* Esp32Control.running
    messages,       \* Esp32Control.messages: list[str]
    message_buffer, \* Esp32Control.message_buffer: Queue[str]
    inputPc,        \* where input_thread is in _input_loop: "idle" (not started),
                    \* "top" (at `while self.running`), "input" (inside input()),
                    \* "done" (returned)
    inputExit,      \* why _input_loop returned: "none", "flag", "EOFError", "Exception"
    linesRead,      \* history: the lines input() has returned, in order
    readsAtStop,    \* history: Len(linesRead) when stop() first ran, -1 before
    putLog,         \* history: the lines put on message_buffer, in order
    pollLog,        \* history: the lines _poll has returned, in order
    produced,       \* history: the texts raw_to_text stored since the buffer was last empty
    ctl,            \* what the most recent call on the input plugin did
    source,         \* which input plugin the runtime configuration instantiated
    drainLog,       \* history: the texts Esp32Control.formatted_latest_buffer has returned
    drainGroups,    \* history: for each returned text, the lines it was made of
    failedDrain,    \* history: the message a drain was forwarding when a
                    \* collaborator raised, None once a drain has returned
    cap,            \* Esp32CamVideo.cap: "None" or "VideoCapture"
    cap_is_opened,  \* self.cap.isOpened()
    analyze_with_vlm, \* Esp32CamVideo.analyze_with_vlm
    vmessages,      \* Esp32CamVideo.messages: list[Message]
    vclock,         \* the time, advanced by each conversion of a frame
    vconverted,     \* history: frames converted to Messages since the last drain
    vstopped,       \* history: stop() has been called
    vreleases,      \* history: number of cap.release() calls
    vreported,      \* history: the Messages given to io_provider.add_input
    vreturned,      \* history: the Messages whose text a drain has returned
    status_shared,  \* history: the snapshots given to status_provider.share_status
    smessages       \* Messages StatusReporter has stored for the planner

motorVars == <<connector, ser, ser_is_open, serOpenCalls, sock, sock_is_open, sockOpenCalls, call>>

controlVars == <<running, messages, message_buffer, inputPc, inputExit,
                 linesRead, readsAtStop, putLog, pollLog, produced, ctl,
                 source, drainLog, drainGroups, failedDrain>>

videoVars == <<cap, cap_is_opened, analyze_with_vlm, vmessages, vclock, vconverted,
               vstopped, vreleases, vreported, vreturned>>

statusVars == <<status_shared, smessages>>

vars == <<motorVars, controlVars, videoVars, statusVars>>

----------------------------------------------------------------------------
\* Configuration and data

\* self.ser = None / self.sock = None
NoHandle == 0

\* SerialMotorConfig defaults
SerialMotorConfig == [port |-> "COM3", baudrate |-> 115200]

\* WifiMotorConfig: ip_address is required, port defaults to 8888
WifiMotorConfig == [ip_address |-> "192.168.4.1", port |-> 8888]

\* class MotorAction(str, Enum): member name and str value
MotorAction ==
    { [enum |-> TRUE, name |-> "FORWARD", value |-> "forward"],
      [enum |-> TRUE, name |-> "BACK",    value |-> "back"],
      [enum |-> TRUE, name |-> "LEFT",    value |-> "left"],
      [enum |-> TRUE, name |-> "RIGHT",   value |-> "right"],
      [enum |-> TRUE, name |-> "STOP",    value |-> "stop"] }

\* Plain strings a caller can put in MotorInput.action (the dataclass does
\* not enforce the annotation): the five member values and one other word.
PlainActions ==
    { [enum |-> FALSE, name |-> "", value |-> v] :
        v \in {"forward", "back", "left", "right", "stop", "jump"} }

\* MotorInput.action
MotorInput == MotorAction \cup PlainActions

\* Placeholder for calls that take no MotorInput
NoInput == [enum |-> FALSE, name |-> "", value |-> ""]

\* str(output_interface.action): Enum.__str__ of a member of a (str, Enum)
\* class is "ClassName.MEMBER"; str() of a plain str is the str itself.
PyStr(action) ==
    IF action.enum THEN "MotorAction." \o action.name ELSE action.value

\* signal_map: its keys are the MotorAction members, which hash and compare
\* as their str values; a signal is a str, here a sequence of characters.
signal_map ==
    [v \in {m.value : m \in MotorAction} |->
        CASE v = "forward" -> <<"F">>
          [] v = "back"    -> <<"B">>
          [] v = "stop"    -> <<"S">>
          [] v = "left"    -> <<"L">>
          [] v = "right"   -> <<"R">>]

\* signal_map.get(action_str): None (the empty, falsy value) when absent
NoSignal == <<>>

\* Variant of the lookup with a default signal: signal_map.get(action_str, "S")
SignalMapGet_default_stop(action_str) ==
    IF action_str \in DOMAIN signal_map THEN signal_map[action_str] ELSE <<"S">>

SignalMapGet(action_str) ==
    IF action_str \in DOMAIN signal_map THEN signal_map[action_str] ELSE NoSignal

\* `if signal:`
Truthy(signal) == Len(signal) > 0

\* str.encode('utf-8') on the ASCII characters that occur
Ord == ("F" :> 70) @@ ("B" :> 66) @@ ("S" :> 83) @@ ("L" :> 76) @@
       ("R" :> 82) @@ ("\n" :> 10)

Utf8Encode(s) == [i \in 1..Len(s) |-> Ord[s[i]]]

\* f"{signal}\n".encode('utf-8')
SerialFrame(signal) == Utf8Encode(signal \o <<"\n">>)

\* signal.encode()
UdpFrame(signal) == Utf8Encode(signal)

\* Outcomes of the external library calls
OpenOutcomes  == {"ok", "raise"}
WriteOutcomes == {"ok", "raise"}
\* a close that raises may or may not have released the handle first
CloseOutcomes == {"ok", "raise_closed", "raise_open"}

\* handle.write / sock.sendto: fails on a handle that is not open
WriteResult(isOpen, writeOut) == IF isOpen THEN writeOut ELSE "raise"

\* is_open of a handle after close() with the given outcome
OpenAfterClose(isOpen, closeOut) == isOpen /\ closeOut = "raise_open"

\* Record of one call
CallRecord(conn, op, action, before, beforeOpen) ==
    [conn |-> conn, op |-> op, action |-> action,
     before |-> before, beforeOpen |-> beforeOpen,
     ensured |-> FALSE, ret |-> "None", raised |-> FALSE,
     opens |-> 0, openOk |-> FALSE,
     writes |-> <<>>, unknown |-> FALSE, closeOut |-> "none"]

----------------------------------------------------------------------------
\* SerialMotor

\* Variant of _ensure_connection that reopens even when the port is open
SerialMotor_ensure_connection_reopens(s, isOpen, n, openOut) ==
    IF openOut = "ok"
    THEN [h |-> n + 1, isOpen |-> TRUE, n |-> n + 1,
          ret |-> TRUE, opens |-> 1, openOk |-> TRUE]
    ELSE [h |-> NoHandle, isOpen |-> FALSE, n |-> n + 1,
          ret |-> FALSE, opens |-> 1, openOk |-> FALSE]

\* Variant of _ensure_connection without `self.ser = None` in the handler
SerialMotor_ensure_connection_keeps(s, isOpen, n, openOut) ==
    IF s = NoHandle \/ ~isOpen
    THEN IF openOut = "ok"
         THEN [h |-> n + 1, isOpen |-> TRUE, n |-> n + 1,
               ret |-> TRUE, opens |-> 1, openOk |-> TRUE]
         ELSE [h |-> s, isOpen |-> isOpen, n |-> n + 1,
               ret |-> FALSE, opens |-> 1, openOk |-> FALSE]
    ELSE [h |-> s, isOpen |-> isOpen, n |-> n,
          ret |-> TRUE, opens |-> 0, openOk |-> FALSE]

\* SerialMotor._ensure_connection: the resulting handle, and what it did
SerialMotor_ensure_connection(s, isOpen, n, openOut) ==
    IF s = NoHandle \/ ~isOpen
    THEN IF openOut = "ok"
         THEN [h |-> n + 1, isOpen |-> TRUE, n |-> n + 1,
               ret |-> TRUE, opens |-> 1, openOk |-> TRUE]
         ELSE [h |-> NoHandle, isOpen |-> FALSE, n |-> n + 1,
               ret |-> FALSE, opens |-> 1, openOk |-> FALSE]
    ELSE [h |-> s, isOpen |-> isOpen, n |-> n,
          ret |-> TRUE, opens |-> 0, openOk |-> FALSE]

\* Variant of connect without the early return on a failed open
SerialMotor_connect_no_return(s, isOpen, n, action, openOut, writeOut, closeOut) ==
    LET e == SerialMotor_ensure_connection(s, isOpen, n, openOut)
        c0 == [CallRecord("serial", "connect", action, s, isOpen) EXCEPT
                 !.ensured = e.ret, !.opens = e.opens, !.openOk = e.openOk]
        action_str == PyStr(action)
        signal == SignalMapGet(action_str)
        w == [h |-> e.h, wasOpen |-> e.isOpen, payload |-> SerialFrame(signal),
              target |-> <<>>, ok |-> WriteResult(e.isOpen, writeOut) = "ok"]
    IN  IF Truthy(signal)
        THEN IF w.ok
             THEN [h |-> e.h, isOpen |-> e.isOpen, n |-> e.n,
                   call |-> [c0 EXCEPT !.writes = <<w>>]]
             ELSE \* except: try self.ser.close() except: pass; self.ser = None
                  [h |-> NoHandle, isOpen |-> FALSE, n |-> e.n,
                   call |-> [c0 EXCEPT !.writes = <<w>>, !.closeOut = closeOut]]
        ELSE [h |-> e.h, isOpen |-> e.isOpen, n |-> e.n,
              call |-> [c0 EXCEPT !.unknown = TRUE]]

\* Variant of connect whose handler logs the write error and keeps self.ser
SerialMotor_connect_keeps_handle(s, isOpen, n, action, openOut, writeOut, closeOut) ==
    LET e == SerialMotor_ensure_connection(s, isOpen, n, openOut)
        c0 == [CallRecord("serial", "connect", action, s, isOpen) EXCEPT
                 !.ensured = e.ret, !.opens = e.opens, !.openOk = e.openOk]
        action_str == PyStr(action)
        signal == SignalMapGet(action_str)
        w == [h |-> e.h, wasOpen |-> e.isOpen, payload |-> SerialFrame(signal),
              target |-> <<>>, ok |-> WriteResult(e.isOpen, writeOut) = "ok"]
    IN  IF ~e.ret
        THEN [h |-> e.h, isOpen |-> e.isOpen, n |-> e.n, call |-> c0]
        ELSE IF Truthy(signal)
        THEN IF w.ok
             THEN [h |-> e.h, isOpen |-> e.isOpen, n |-> e.n,
                   call |-> [c0 EXCEPT !.writes = <<w>>]]
             ELSE \* except: try self.ser.close() except: pass; self.ser = None
                  [h |-> e.h, isOpen |-> e.isOpen, n |-> e.n,
                   call |-> [c0 EXCEPT !.writes = <<w>>, !.closeOut = closeOut]]
        ELSE [h |-> e.h, isOpen |-> e.isOpen, n |-> e.n,
              call |-> [c0 EXCEPT !.unknown = TRUE]]

\* Variant of connect that writes the frame a second time after a failure
SerialMotor_connect_retries(s, isOpen, n, action, openOut, writeOut, closeOut) ==
    LET e == SerialMotor_ensure_connection(s, isOpen, n, openOut)
        c0 == [CallRecord("serial", "connect", action, s, isOpen) EXCEPT
                 !.ensured = e.ret, !.opens = e.opens, !.openOk = e.openOk]
        action_str == PyStr(action)
        signal == SignalMapGet(action_str)
        w == [h |-> e.h, wasOpen |-> e.isOpen, payload |-> SerialFrame(signal),
              target |-> <<>>, ok |-> WriteResult(e.isOpen, writeOut) = "ok"]
    IN  IF ~e.ret
        THEN [h |-> e.h, isOpen |-> e.isOpen, n |-> e.n, call |-> c0]
        ELSE IF Truthy(signal)
        THEN IF w.ok
             THEN [h |-> e.h, isOpen |-> e.isOpen, n |-> e.n,
                   call |-> [c0 EXCEPT !.writes = <<w>>]]
             ELSE \* except: try self.ser.close() except: pass; self.ser = None
                  [h |-> NoHandle, isOpen |-> FALSE, n |-> e.n,
                   call |-> [c0 EXCEPT !.writes = <<w, w>>, !.closeOut = closeOut]]
        ELSE [h |-> e.h, isOpen |-> e.isOpen, n |-> e.n,
              call |-> [c0 EXCEPT !.unknown = TRUE]]

\* Variant of connect whose handler calls self.ser.close() outside a try
SerialMotor_connect_unguarded_close(s, isOpen, n, action, openOut, writeOut, closeOut) ==
    LET e == SerialMotor_ensure_connection(s, isOpen, n, openOut)
        c0 == [CallRecord("serial", "connect", action, s, isOpen) EXCEPT
                 !.ensured = e.ret, !.opens = e.opens, !.openOk = e.openOk]
        action_str == PyStr(action)
        signal == SignalMapGet(action_str)
        w == [h |-> e.h, wasOpen |-> e.isOpen, payload |-> SerialFrame(signal),
              target |-> <<>>, ok |-> WriteResult(e.isOpen, writeOut) = "ok"]
    IN  IF ~e.ret
        THEN [h |-> e.h, isOpen |-> e.isOpen, n |-> e.n, call |-> c0]
        ELSE IF Truthy(signal)
        THEN IF w.ok
             THEN [h |-> e.h, isOpen |-> e.isOpen, n |-> e.n,
                   call |-> [c0 EXCEPT !.writes = <<w>>]]
             ELSE \* except: try self.ser.close() except: pass; self.ser = None
                  IF closeOut = "ok"
                  THEN [h |-> NoHandle, isOpen |-> FALSE, n |-> e.n,
                        call |-> [c0 EXCEPT !.writes = <<w>>,
                                            !.closeOut = closeOut]]
                  ELSE [h |-> e.h, isOpen |-> OpenAfterClose(e.isOpen, closeOut),
                        n |-> e.n,
                        call |-> [c0 EXCEPT !.writes = <<w>>,
                                            !.closeOut = closeOut,
                                            !.raised = TRUE]]
        ELSE [h |-> e.h, isOpen |-> e.isOpen, n |-> e.n,
              call |-> [c0 EXCEPT !.unknown = TRUE]]

\* Variant of connect that also discards the handle on an unknown action
SerialMotor_connect_drops_on_unknown(s, isOpen, n, action, openOut, writeOut, closeOut) ==
    LET e == SerialMotor_ensure_connection(s, isOpen, n, openOut)
        c0 == [CallRecord("serial", "connect", action, s, isOpen) EXCEPT
                 !.ensured = e.ret, !.opens = e.opens, !.openOk = e.openOk]
        action_str == PyStr(action)
        signal == SignalMapGet(action_str)
        w == [h |-> e.h, wasOpen |-> e.isOpen, payload |-> SerialFrame(signal),
              target |-> <<>>, ok |-> WriteResult(e.isOpen, writeOut) = "ok"]
    IN  IF ~e.ret
        THEN [h |-> e.h, isOpen |-> e.isOpen, n |-> e.n, call |-> c0]
        ELSE IF Truthy(signal)
        THEN IF w.ok
             THEN [h |-> e.h, isOpen |-> e.isOpen, n |-> e.n,
                   call |-> [c0 EXCEPT !.writes = <<w>>]]
             ELSE \* except: try self.ser.close() except: pass; self.ser = None
                  [h |-> NoHandle, isOpen |-> FALSE, n |-> e.n,
                   call |-> [c0 EXCEPT !.writes = <<w>>, !.closeOut = closeOut]]
        ELSE [h |-> NoHandle, isOpen |-> FALSE, n |-> e.n,
              call |-> [c0 EXCEPT !.unknown = TRUE]]

\* SerialMotor.connect
SerialMotor_connect(s, isOpen, n, action, openOut, writeOut, closeOut) ==
    LET e == SerialMotor_ensure_connection(s, isOpen, n, openOut)
        c0 == [CallRecord("serial", "connect", action, s, isOpen) EXCEPT
                 !.ensured = e.ret, !.opens = e.opens, !.openOk = e.openOk]
        action_str == PyStr(action)
        signal == SignalMapGet(action_str)
        w == [h |-> e.h, wasOpen |-> e.isOpen, payload |-> SerialFrame(signal),
              target |-> <<>>, ok |-> WriteResult(e.isOpen, writeOut) = "ok"]
    IN  IF ~e.ret
        THEN [h |-> e.h, isOpen |-> e.isOpen, n |-> e.n, call |-> c0]
        ELSE IF Truthy(signal)
        THEN IF w.ok
             THEN [h |-> e.h, isOpen |-> e.isOpen, n |-> e.n,
                   call |-> [c0 EXCEPT !.writes = <<w>>]]
             ELSE \* except: try self.ser.close() except: pass; self.ser = None
                  [h |-> NoHandle, isOpen |-> FALSE, n |-> e.n,
                   call |-> [c0 EXCEPT !.writes = <<w>>, !.closeOut = closeOut]]
        ELSE [h |-> e.h, isOpen |-> e.isOpen, n |-> e.n,
              call |-> [c0 EXCEPT !.unknown = TRUE]]

\* Variant of close without `self.ser = None`
SerialMotor_close_keeps_handle(s, isOpen, n, closeOut) ==
    LET c0 == CallRecord("serial", "close", NoInput, s, isOpen)
    IN  IF s # NoHandle /\ isOpen
        THEN IF closeOut = "ok"
             THEN [h |-> s, isOpen |-> FALSE, n |-> n,
                   call |-> [c0 EXCEPT !.closeOut = closeOut]]
             ELSE [h |-> s, isOpen |-> OpenAfterClose(isOpen, closeOut), n |-> n,
                   call |-> [c0 EXCEPT !.closeOut = closeOut, !.raised = TRUE]]
        ELSE [h |-> s, isOpen |-> isOpen, n |-> n, call |-> c0]

\* SerialMotor.close
SerialMotor_close(s, isOpen, n, closeOut) ==
    LET c0 == CallRecord("serial", "close", NoInput, s, isOpen)
    IN  IF s # NoHandle /\ isOpen
        THEN IF closeOut = "ok"
             THEN [h |-> NoHandle, isOpen |-> FALSE, n |-> n,
                   call |-> [c0 EXCEPT !.closeOut = closeOut]]
             ELSE [h |-> s, isOpen |-> OpenAfterClose(isOpen, closeOut), n |-> n,
                   call |-> [c0 EXCEPT !.closeOut = closeOut, !.raised = TRUE]]
        ELSE [h |-> s, isOpen |-> isOpen, n |-> n, call |-> c0]

----------------------------------------------------------------------------
\* WifiMotor

\* WifiMotor._ensure_connection
WifiMotor_ensure_connection(s, isOpen, n, openOut) ==
    IF s = NoHandle
    THEN IF openOut = "ok"
         THEN [h |-> n + 1, isOpen |-> TRUE, n |-> n + 1,
               ret |-> TRUE, opens |-> 1, openOk |-> TRUE]
         ELSE [h |-> NoHandle, isOpen |-> FALSE, n |-> n + 1,
               ret |-> FALSE, opens |-> 1, openOk |-> FALSE]
    ELSE [h |-> s, isOpen |-> isOpen, n |-> n,
          ret |-> TRUE, opens |-> 0, openOk |-> FALSE]

\* WifiMotor.connect
WifiMotor_connect(s, isOpen, n, action, openOut, writeOut, closeOut) ==
    LET e == WifiMotor_ensure_connection(s, isOpen, n, openOut)
        c0 == [CallRecord("wifi", "connect", action, s, isOpen) EXCEPT
                 !.ensured = e.ret, !.opens = e.opens, !.openOk = e.openOk]
        action_str == PyStr(action)
        signal == SignalMapGet(action_str)
        target == <<WifiMotorConfig.ip_address, WifiMotorConfig.port>>
        w == [h |-> e.h, wasOpen |-> e.isOpen, payload |-> UdpFrame(signal),
              target |-> target, ok |-> WriteResult(e.isOpen, writeOut) = "ok"]
    IN  IF ~e.ret
        THEN [h |-> e.h, isOpen |-> e.isOpen, n |-> e.n, call |-> c0]
        ELSE IF Truthy(signal)
        THEN IF w.ok
             THEN [h |-> e.h, isOpen |-> e.isOpen, n |-> e.n,
                   call |-> [c0 EXCEPT !.writes = <<w>>]]
             ELSE \* except: self.sock.close() (not guarded); self.sock = None
                  IF closeOut = "ok"
                  THEN [h |-> NoHandle, isOpen |-> FALSE, n |-> e.n,
                        call |-> [c0 EXCEPT !.writes = <<w>>,
                                            !.closeOut = closeOut]]
                  ELSE [h |-> e.h, isOpen |-> OpenAfterClose(e.isOpen, closeOut),
                        n |-> e.n,
                        call |-> [c0 EXCEPT !.writes = <<w>>,
                                            !.closeOut = closeOut,
                                            !.raised = TRUE]]
        ELSE [h |-> e.h, isOpen |-> e.isOpen, n |-> e.n,
              call |-> [c0 EXCEPT !.unknown = TRUE]]

\* WifiMotor.close
WifiMotor_close(s, isOpen, n, closeOut) ==
    LET c0 == CallRecord("wifi", "close", NoInput, s, isOpen)
    IN  IF s # NoHandle
        THEN IF closeOut = "ok"
             THEN [h |-> NoHandle, isOpen |-> FALSE, n |-> n,
                   call |-> [c0 EXCEPT !.closeOut = closeOut]]
             ELSE [h |-> s, isOpen |-> OpenAfterClose(isOpen, closeOut), n |-> n,
                   call |-> [c0 EXCEPT !.closeOut = closeOut, !.raised = TRUE]]
        ELSE [h |-> s, isOpen |-> isOpen, n |-> n, call |-> c0]

----------------------------------------------------------------------------
\* Esp32Control

\* Optional[...] values: None, or a present value
None == [some |-> FALSE, val |-> <<>>]
Some(v) == [some |-> TRUE, val |-> v]

\* Lines input() can return; a str is a sequence of characters.
InputLines == { <<>>, <<" ">>, <<"a">>, <<" ", "b">> }

\* str.isspace() of one character
IsSpace(c) == c \in {" ", "\t", "\n", "\r"}

\* str.lstrip() / str.rstrip() / str.strip()
RECURSIVE LStrip(_)
LStrip(s) == IF Len(s) > 0 /\ IsSpace(Head(s)) THEN LStrip(Tail(s)) ELSE s

RECURSIVE RStrip(_)
RStrip(s) ==
    IF Len(s) > 0 /\ IsSpace(s[Len(s)]) THEN RStrip(SubSeq(s, 1, Len(s) - 1)) ELSE s

Strip(s) == RStrip(LStrip(s))

\* Variant of the loop body that tests `if user_input:` without strip()
InputLoop_put_no_strip(q, user_input) ==
    IF Len(user_input) > 0 THEN Append(q, user_input) ELSE q

\* the body of the loop of _input_loop once input() has returned user_input:
\* the queue afterwards
InputLoop_put(q, user_input) ==
    IF Len(Strip(user_input)) > 0 THEN Append(q, user_input) ELSE q

\* Variant of _poll on a LifoQueue: returns the newest line
Esp32Control_poll_lifo(q) ==
    IF Len(q) > 0
    THEN [ret |-> Some(q[Len(q)]), q |-> SubSeq(q, 1, Len(q) - 1)]
    ELSE [ret |-> None, q |-> q]

\* Variant of _poll that reads the oldest line without removing it
Esp32Control_poll_peek(q) ==
    IF Len(q) > 0
    THEN [ret |-> Some(Head(q)), q |-> q]
    ELSE [ret |-> None, q |-> q]

\* Esp32Control._poll: message_buffer.get_nowait(), None on Empty
Esp32Control_poll(q) ==
    IF Len(q) > 0
    THEN [ret |-> Some(Head(q)), q |-> Tail(q)]
    ELSE [ret |-> None, q |-> q]

\* Esp32Control._raw_to_text: the text of the Message (its timestamp is
\* never read by this class), or None
Esp32Control_raw_to_text_(raw_input) ==
    IF raw_input = None THEN None ELSE Some(raw_input.val)

\* Variant of raw_to_text that replaces the entry by the new text
Esp32Control_raw_to_text_overwrites(msgs, raw_input) ==
    LET pending_message == Esp32Control_raw_to_text_(raw_input)
    IN  IF pending_message # None
        THEN IF Len(msgs) = 0
             THEN Append(msgs, pending_message.val)
             ELSE [msgs EXCEPT ![Len(msgs)] = pending_message.val]
        ELSE msgs

\* Variant of raw_to_text that appends every text as an entry of its own
Esp32Control_raw_to_text_appends(msgs, raw_input) ==
    LET pending_message == Esp32Control_raw_to_text_(raw_input)
    IN  IF pending_message # None
        THEN Append(msgs, pending_message.val)
        ELSE msgs

\* Variant of raw_to_text that concatenates without the separating space
Esp32Control_raw_to_text_no_space(msgs, raw_input) ==
    LET pending_message == Esp32Control_raw_to_text_(raw_input)
    IN  IF pending_message # None
        THEN IF Len(msgs) = 0
             THEN Append(msgs, pending_message.val)
             ELSE [msgs EXCEPT ![Len(msgs)] =
                      msgs[Len(msgs)] \o pending_message.val]
        ELSE msgs

\* Esp32Control.raw_to_text: the messages list afterwards
Esp32Control_raw_to_text(msgs, raw_input) ==
    LET pending_message == Esp32Control_raw_to_text_(raw_input)
    IN  IF pending_message # None
        THEN IF Len(msgs) = 0
             THEN Append(msgs, pending_message.val)
             ELSE [msgs EXCEPT ![Len(msgs)] =
                      msgs[Len(msgs)] \o <<" ">> \o pending_message.val]
        ELSE msgs

\* Esp32Control.descriptor_for_LLM
ControlDescriptor == "User"

\* Outcomes of a collaborator call (IOProvider.add_input,
\* TeleopsConversationProvider.store_user_message)
SinkOutcomes == {"ok", "raise"}

\* Record of one call on an input plugin
InputCall(op, before) ==
    [op |-> op, before |-> before, ret |-> None, raised |-> FALSE,
     add_input |-> <<>>, store_user_message |-> <<>>,
     reads |-> 0, releases |-> 0]

\* Variant of formatted_latest_buffer that logs the formatted text: store_user_message(result)
Esp32Control_formatted_latest_buffer_stores_result(msgs, addOut, storeOut) ==
    LET c0 == InputCall("drain", msgs)
    IN  IF Len(msgs) = 0
        THEN [messages |-> msgs, call |-> c0]
        ELSE
          LET current_msg == msgs[Len(msgs)]
              result == <<"User Command: ">> \o current_msg
              c1 == [c0 EXCEPT !.add_input = <<[label |-> ControlDescriptor,
                                                 text |-> current_msg]>>]
              c2 == [c1 EXCEPT !.store_user_message = <<result>>]
          IN  IF addOut = "raise"
              THEN [messages |-> msgs, call |-> [c1 EXCEPT !.raised = TRUE]]
              ELSE IF storeOut = "raise"
              THEN [messages |-> msgs, call |-> [c2 EXCEPT !.raised = TRUE]]
              ELSE [messages |-> <<>>, call |-> [c2 EXCEPT !.ret = Some(result)]]

\* Esp32Control.formatted_latest_buffer: the messages list afterwards and
\* what the call did
Esp32Control_formatted_latest_buffer(msgs, addOut, storeOut) ==
    LET c0 == InputCall("drain", msgs)
    IN  IF Len(msgs) = 0
        THEN [messages |-> msgs, call |-> c0]
        ELSE
          LET current_msg == msgs[Len(msgs)]
              result == <<"User Command: ">> \o current_msg
              c1 == [c0 EXCEPT !.add_input = <<[label |-> ControlDescriptor,
                                                 text |-> current_msg]>>]
              c2 == [c1 EXCEPT !.store_user_message = <<current_msg>>]
          IN  IF addOut = "raise"
              THEN [messages |-> msgs, call |-> [c1 EXCEPT !.raised = TRUE]]
              ELSE IF storeOut = "raise"
              THEN [messages |-> msgs, call |-> [c2 EXCEPT !.raised = TRUE]]
              ELSE [messages |-> <<>>, call |-> [c2 EXCEPT !.ret = Some(result)]]

\* no Esp32Control object in this configuration
ControlAbsent ==
    /\ running = FALSE
    /\ messages = <<>>
    /\ message_buffer = <<>>
    /\ inputPc = "idle"
    /\ inputExit = "none"
    /\ linesRead = <<>>
    /\ readsAtStop = -1
    /\ putLog = <<>>
    /\ pollLog = <<>>
    /\ produced = <<>>
    /\ ctl = InputCall("none", <<>>)
    /\ source = "none"
    /\ drainLog = <<>>
    /\ drainGroups = <<>>
    /\ failedDrain = None

----------------------------------------------------------------------------
\* Esp32CamVideo

\* Frames cap.read() can deliver: numpy arrays, of which only shape[:2] is read
Frames == { [height |-> 240, width |-> 320], [height |-> 480, width |-> 640] }

\* Esp32CamVideo.descriptor_for_LLM and self.__class__.__name__
VideoDescriptor == "ESP32-CAM Video"
VideoClassName == "Esp32CamVideo"

\* Variant of _poll that tests only `self.cap is None`
Esp32CamVideo_poll_unchecked(c, isOpened, readOut) ==
    IF c = "None"
    THEN [ret |-> None, reads |-> 0, isOpened |-> isOpened, releases |-> 0]
    ELSE IF readOut.ret /\ isOpened
         THEN [ret |-> Some(readOut.frame), reads |-> 1,
               isOpened |-> isOpened, releases |-> 0]
         ELSE [ret |-> None, reads |-> 1, isOpened |-> isOpened, releases |-> 0]

\* Variant of _poll that releases the capture when a read fails
Esp32CamVideo_poll_releases(c, isOpened, readOut) ==
    IF c = "None" \/ ~isOpened
    THEN [ret |-> None, reads |-> 0, isOpened |-> isOpened, releases |-> 0]
    ELSE IF readOut.ret
         THEN [ret |-> Some(readOut.frame), reads |-> 1,
               isOpened |-> isOpened, releases |-> 0]
         ELSE [ret |-> None, reads |-> 1, isOpened |-> FALSE, releases |-> 1]

\* Esp32CamVideo._poll: the frame or None, the number of cap.read() calls,
\* and what it does to the capture (nothing: isOpened() as before, no release)
Esp32CamVideo_poll(c, isOpened, readOut) ==
    IF c = "None" \/ ~isOpened
    THEN [ret |-> None, reads |-> 0, isOpened |-> isOpened, releases |-> 0]
    ELSE IF readOut.ret
         THEN [ret |-> Some(readOut.frame), reads |-> 1,
               isOpened |-> isOpened, releases |-> 0]
         ELSE [ret |-> None, reads |-> 1, isOpened |-> isOpened, releases |-> 0]

\* Esp32CamVideo._raw_to_text at time t: a Message or None
Esp32CamVideo_raw_to_text_(raw_input, vlm, t) ==
    IF raw_input = None
    THEN None
    ELSE LET height == raw_input.val.height
             width == raw_input.val.width
             timestamp == t
             message ==
                 IF vlm
                 THEN <<"Received video frame at ", timestamp, " (", width, "x",
                        height, " pixels). Ready for VLM analysis.">>
                 ELSE <<"Received video frame at ", timestamp, " (", width, "x",
                        height, " pixels). Video stream active.">>
         IN  Some([timestamp |-> t, message |-> message])

\* Esp32CamVideo.raw_to_text: the messages list afterwards
Esp32CamVideo_raw_to_text(msgs, raw_input, vlm, t) ==
    LET pending_message == Esp32CamVideo_raw_to_text_(raw_input, vlm, t)
    IN  IF pending_message # None
        THEN Append(msgs, pending_message.val)
        ELSE msgs

\* Variant of formatted_latest_buffer that gives every buffered Message to
\* add_input, oldest first
Esp32CamVideo_formatted_latest_buffer_forwards_all(msgs, addOut) ==
    LET c0 == InputCall("drain", msgs)
    IN  IF Len(msgs) = 0
        THEN [messages |-> msgs, call |-> c0]
        ELSE
          LET latest_message == msgs[Len(msgs)]
              result == <<"\nINPUT: ", VideoDescriptor, "\n// START\n">>
                          \o latest_message.message \o <<"\n// END\n">>
              c1 == [c0 EXCEPT !.add_input =
                        [i \in 1..Len(msgs) |->
                            [label |-> VideoClassName,
                             text |-> msgs[i].message,
                             timestamp |-> msgs[i].timestamp]]]
          IN  IF addOut = "raise"
              THEN [messages |-> msgs, call |-> [c1 EXCEPT !.raised = TRUE]]
              ELSE [messages |-> <<>>, call |-> [c1 EXCEPT !.ret = Some(result)]]

\* Variant of formatted_latest_buffer that clears the list before it
\* calls add_input
Esp32CamVideo_formatted_latest_buffer_clears_first(msgs, addOut) ==
    LET c0 == InputCall("drain", msgs)
    IN  IF Len(msgs) = 0
        THEN [messages |-> msgs, call |-> c0]
        ELSE
          LET latest_message == msgs[Len(msgs)]
              result == <<"\nINPUT: ", VideoDescriptor, "\n// START\n">>
                          \o latest_message.message \o <<"\n// END\n">>
              c1 == [c0 EXCEPT !.add_input =
                        <<[label |-> VideoClassName,
                           text |-> latest_message.message,
                           timestamp |-> latest_message.timestamp]>>]
          IN  IF addOut = "raise"
              THEN [messages |-> <<>>, call |-> [c1 EXCEPT !.raised = TRUE]]
              ELSE [messages |-> <<>>, call |-> [c1 EXCEPT !.ret = Some(result)]]

\* Variant of formatted_latest_buffer that removes only the entry it
\* returned: self.messages.pop() in place of `self.messages = []`
Esp32CamVideo_formatted_latest_buffer_pops(msgs, addOut) ==
    LET c0 == InputCall("drain", msgs)
    IN  IF Len(msgs) = 0
        THEN [messages |-> msgs, call |-> c0]
        ELSE
          LET latest_message == msgs[Len(msgs)]
              result == <<"\nINPUT: ", VideoDescriptor, "\n// START\n">>
                          \o latest_message.message \o <<"\n// END\n">>
              c1 == [c0 EXCEPT !.add_input =
                        <<[label |-> VideoClassName,
                           text |-> latest_message.message,
                           timestamp |-> latest_message.timestamp]>>]
          IN  IF addOut = "raise"
              THEN [messages |-> msgs, call |-> [c1 EXCEPT !.raised = TRUE]]
              ELSE [messages |-> SubSeq(msgs, 1, Len(msgs) - 1),
                    call |-> [c1 EXCEPT !.ret = Some(result)]]

\* Variant of formatted_latest_buffer that reads self.messages[0]
Esp32CamVideo_formatted_latest_buffer_oldest(msgs, addOut) ==
    LET c0 == InputCall("drain", msgs)
    IN  IF Len(msgs) = 0
        THEN [messages |-> msgs, call |-> c0]
        ELSE
          LET latest_message == msgs[1]
              result == <<"\nINPUT: ", VideoDescriptor, "\n// START\n">>
                          \o latest_message.message \o <<"\n// END\n">>
              c1 == [c0 EXCEPT !.add_input =
                        <<[label |-> VideoClassName,
                           text |-> latest_message.message,
                           timestamp |-> latest_message.timestamp]>>]
          IN  IF addOut = "raise"
              THEN [messages |-> msgs, call |-> [c1 EXCEPT !.raised = TRUE]]
              ELSE [messages |-> <<>>, call |-> [c1 EXCEPT !.ret = Some(result)]]

\* Esp32CamVideo.formatted_latest_buffer
Esp32CamVideo_formatted_latest_buffer(msgs, addOut) ==
    LET c0 == InputCall("drain", msgs)
    IN  IF Len(msgs) = 0
        THEN [messages |-> msgs, call |-> c0]
        ELSE
          LET latest_message == msgs[Len(msgs)]
              result == <<"\nINPUT: ", VideoDescriptor, "\n// START\n">>
                          \o latest_message.message \o <<"\n// END\n">>
              c1 == [c0 EXCEPT !.add_input =
                        <<[label |-> VideoClassName,
                           text |-> latest_message.message,
                           timestamp |-> latest_message.timestamp]>>]
          IN  IF addOut = "raise"
              THEN [messages |-> msgs, call |-> [c1 EXCEPT !.raised = TRUE]]
              ELSE [messages |-> <<>>, call |-> [c1 EXCEPT !.ret = Some(result)]]

\* Variant of stop that tests only `self.cap is not None`
Esp32CamVideo_stop_unchecked(c, isOpened) ==
    IF c # "None"
    THEN [isOpened |-> FALSE, releases |-> 1]
    ELSE [isOpened |-> isOpened, releases |-> 0]

\* Esp32CamVideo.stop: isOpened() afterwards (a released cv2.VideoCapture
\* reports not opened) and the number of release() calls
Esp32CamVideo_stop(c, isOpened) ==
    IF c # "None" /\ isOpened
    THEN [isOpened |-> FALSE, releases |-> 1]
    ELSE [isOpened |-> isOpened, releases |-> 0]

\* no Esp32CamVideo object in this configuration
VideoAbsent ==
    /\ cap = "None"
    /\ cap_is_opened = FALSE
    /\ analyze_with_vlm = FALSE
    /\ vmessages = <<>>
    /\ vclock = 0
    /\ vconverted = 0
    /\ vstopped = FALSE
    /\ vreleases = 0
    /\ vreported = {}
    /\ vreturned = {}

----------------------------------------------------------------------------
\* StatusReporter

\* The TeleopsStatus that _poll builds at time t
StatusSnapshot(t) ==
    [update_time |-> t,
     battery_status |-> [battery_level |-> 85, temperature |-> 25,
                         voltage |-> 12, timestamp |-> t,
                         charging_status |-> FALSE],
     machine_name |-> "OM1_Car",
     video_connected |-> FALSE]

\* The value _poll returns after sharing the status
StatusSentinel == <<"status_reported">>

\* StatusReporter._poll at time t: the snapshots given to share_status so
\* far, and the returned value unless share_status raised
StatusReporter_poll(shared, t, shareOut) ==
    LET status == StatusSnapshot(t)
    IN  IF shareOut = "raise"
        THEN [ret |-> None, raised |-> TRUE, shared |-> Append(shared, status)]
        ELSE [ret |-> Some(StatusSentinel), raised |-> FALSE,
              shared |-> Append(shared, status)]

\* Variant of raw_to_text that stores the acknowledgement Message
StatusReporter_raw_to_text_stores(msgs, raw_input, t) ==
    IF raw_input = None
    THEN msgs
    ELSE Append(msgs, [timestamp |-> t,
                       message |-> "Robot status reported to control panel"])

\* StatusReporter.raw_to_text: `pass`
StatusReporter_raw_to_text(msgs, raw_input, t) == msgs

\* StatusReporter.formatted_latest_buffer: `return None`
StatusReporter_formatted_latest_buffer(msgs) == None

\* no StatusReporter object in this configuration
StatusAbsent ==
    /\ status_shared = <<>>
    /\ smessages = <<>>

----------------------------------------------------------------------------
\* State machine

\* The motor action is configured with one connector, whose constructor
\* (SerialMotor.__init__ or WifiMotor.__init__) starts in lazy mode: no handle.
Init ==
    /\ connector \in {"serial", "wifi"}
    /\ ser = NoHandle
    /\ ser_is_open = FALSE
    /\ serOpenCalls = 0
    /\ sock = NoHandle
    /\ sock_is_open = FALSE
    /\ sockOpenCalls = 0
    /\ call = CallRecord("none", "init", NoInput, NoHandle, FALSE)
    /\ ControlAbsent
    /\ VideoAbsent
    /\ StatusAbsent

SerialUnchanged ==
    UNCHANGED <<connector, ser, ser_is_open, serOpenCalls, controlVars, videoVars,
                statusVars>>
WifiUnchanged ==
    UNCHANGED <<connector, sock, sock_is_open, sockOpenCalls, controlVars, videoVars,
                statusVars>>

\* a call of SerialMotor._ensure_connection()
SerialEnsureConnection ==
    \E openOut \in OpenOutcomes :
        LET e == SerialMotor_ensure_connection(ser, ser_is_open, serOpenCalls, openOut)
        IN  /\ connector = "serial"
            /\ e.n <= MaxOpens
            /\ ser' = e.h
            /\ ser_is_open' = e.isOpen
            /\ serOpenCalls' = e.n
            /\ call' = [CallRecord("serial", "ensure", NoInput, ser, ser_is_open)
                          EXCEPT !.ensured = e.ret,
                                 !.ret = IF e.ret THEN "True" ELSE "False",
                                 !.opens = e.opens, !.openOk = e.openOk]
            /\ WifiUnchanged

\* a call of SerialMotor.connect(output_interface)
SerialConnect ==
    \E action \in MotorInput, openOut \in OpenOutcomes,
       writeOut \in WriteOutcomes, closeOut \in CloseOutcomes :
        LET r == SerialMotor_connect(ser, ser_is_open, serOpenCalls, action,
                                     openOut, writeOut, closeOut)
        IN  /\ connector = "serial"
            /\ r.n <= MaxOpens
            /\ ser' = r.h
            /\ ser_is_open' = r.isOpen
            /\ serOpenCalls' = r.n
            /\ call' = r.call
            /\ WifiUnchanged

\* a call of SerialMotor.close()
SerialClose ==
    \E closeOut \in CloseOutcomes :
        LET r == SerialMotor_close(ser, ser_is_open, serOpenCalls, closeOut)
        IN  /\ connector = "serial"
            /\ ser' = r.h
            /\ ser_is_open' = r.isOpen
            /\ serOpenCalls' = r.n
            /\ call' = r.call
            /\ WifiUnchanged

\* a call of WifiMotor._ensure_connection()
WifiEnsureConnection ==
    \E openOut \in OpenOutcomes :
        LET e == WifiMotor_ensure_connection(sock, sock_is_open, sockOpenCalls, openOut)
        IN  /\ connector = "wifi"
            /\ e.n <= MaxOpens
            /\ sock' = e.h
            /\ sock_is_open' = e.isOpen
            /\ sockOpenCalls' = e.n
            /\ call' = [CallRecord("wifi", "ensure", NoInput, sock, sock_is_open)
                          EXCEPT !.ensured = e.ret,
                                 !.ret = IF e.ret THEN "True" ELSE "False",
                                 !.opens = e.opens, !.openOk = e.openOk]
            /\ SerialUnchanged

\* a call of WifiMotor.connect(output_interface)
WifiConnect ==
    \E action \in MotorInput, openOut \in OpenOutcomes,
       writeOut \in WriteOutcomes, closeOut \in CloseOutcomes :
        LET r == WifiMotor_connect(sock, sock_is_open, sockOpenCalls, action,
                                   openOut, writeOut, closeOut)
        IN  /\ connector = "wifi"
            /\ r.n <= MaxOpens
            /\ sock' = r.h
            /\ sock_is_open' = r.isOpen
            /\ sockOpenCalls' = r.n
            /\ call' = r.call
            /\ SerialUnchanged

\* a call of WifiMotor.close()
WifiClose ==
    \E closeOut \in CloseOutcomes :
        LET r == WifiMotor_close(sock, sock_is_open, sockOpenCalls, closeOut)
        IN  /\ connector = "wifi"
            /\ sock' = r.h
            /\ sock_is_open' = r.isOpen
            /\ sockOpenCalls' = r.n
            /\ call' = r.call
            /\ SerialUnchanged

Next ==
    \/ SerialEnsureConnection
    \/ SerialConnect
    \/ SerialClose
    \/ WifiEnsureConnection
    \/ WifiConnect
    \/ WifiClose

Spec == Init /\ [][Next]_vars

----------------------------------------------------------------------------
\* State machine of the operator-command source

\* no motor connector in this configuration
MotorAbsent ==
    /\ connector = "none"
    /\ ser = NoHandle
    /\ ser_is_open = FALSE
    /\ serOpenCalls = 0
    /\ sock = NoHandle
    /\ sock_is_open = FALSE
    /\ sockOpenCalls = 0
    /\ call = CallRecord("none", "init", NoInput, NoHandle, FALSE)

\* Esp32Control.__init__: running, empty buffer and queue, input_thread started
InitControl ==
    /\ MotorAbsent
    /\ running = TRUE
    /\ messages = <<>>
    /\ message_buffer = <<>>
    /\ inputPc = "top"
    /\ inputExit = "none"
    /\ linesRead = <<>>
    /\ readsAtStop = -1
    /\ putLog = <<>>
    /\ pollLog = <<>>
    /\ produced = <<>>
    /\ ctl = InputCall("init", <<>>)
    /\ source = "control"
    /\ drainLog = <<>>
    /\ drainGroups = <<>>
    /\ failedDrain = None
    /\ VideoAbsent
    /\ StatusAbsent

ThreadUnchanged ==
    UNCHANGED <<inputPc, inputExit, linesRead, putLog, source, videoVars, statusVars>>
LoopUnchanged ==
    UNCHANGED <<messages, pollLog, produced, ctl, readsAtStop, source, drainLog,
                drainGroups, failedDrain, videoVars, statusVars>>

\* Variant of _input_loop with `while True`: the flag is not consulted
InputLoopEnter_while_true ==
    /\ inputPc = "top"
    /\ inputPc' = "input"
    /\ UNCHANGED <<motorVars, running, message_buffer, inputExit, linesRead, putLog>>
    /\ LoopUnchanged

\* input_thread: `while self.running` holds and the thread calls input()
InputLoopEnter ==
    /\ inputPc = "top"
    /\ running
    /\ inputPc' = "input"
    /\ UNCHANGED <<motorVars, running, message_buffer, inputExit, linesRead, putLog>>
    /\ LoopUnchanged

\* input_thread: `while self.running` fails and _input_loop returns
InputLoopExit ==
    /\ inputPc = "top"
    /\ ~running
    /\ inputPc' = "done"
    /\ inputExit' = "flag"
    /\ UNCHANGED <<motorVars, running, message_buffer, linesRead, putLog>>
    /\ LoopUnchanged

\* Variant of _input_loop that appends the line to self.messages as well
InputLoopLine_shares_messages ==
    \E user_input \in InputLines :
        /\ inputPc = "input"
        /\ Len(linesRead) < MaxLines
        /\ linesRead' = Append(linesRead, user_input)
        /\ message_buffer' = InputLoop_put(message_buffer, user_input)
        /\ putLog' = putLog \o SubSeq(message_buffer', Len(message_buffer) + 1,
                                      Len(message_buffer'))
        /\ messages' = Append(messages, user_input)
        /\ inputPc' = "top"
        /\ UNCHANGED <<motorVars, running, inputExit>>
        /\ UNCHANGED <<pollLog, produced, ctl, readsAtStop, source, drainLog,
                       drainGroups, failedDrain, videoVars, statusVars>>

\* input_thread: input() returns a line; a non-blank one is put on the queue
InputLoopLine ==
    \E user_input \in InputLines :
        /\ inputPc = "input"
        /\ Len(linesRead) < MaxLines
        /\ linesRead' = Append(linesRead, user_input)
        /\ message_buffer' = InputLoop_put(message_buffer, user_input)
        /\ putLog' = putLog \o SubSeq(message_buffer', Len(message_buffer) + 1,
                                      Len(message_buffer'))
        /\ inputPc' = "top"
        /\ UNCHANGED <<motorVars, running, inputExit>>
        /\ LoopUnchanged

\* Variant of _input_loop whose handlers `continue` in place of `break`
InputLoopBreak_continues ==
    \E e \in {"EOFError", "Exception"} :
        /\ inputPc = "input"
        /\ inputPc' = "top"
        /\ inputExit' = e
        /\ UNCHANGED <<motorVars, running, message_buffer, linesRead, putLog>>
        /\ LoopUnchanged

\* input_thread: input() raises EOFError or another exception; both break
InputLoopBreak ==
    \E e \in {"EOFError", "Exception"} :
        /\ inputPc = "input"
        /\ inputPc' = "done"
        /\ inputExit' = e
        /\ UNCHANGED <<motorVars, running, message_buffer, linesRead, putLog>>
        /\ LoopUnchanged

\* One poll cycle of the source: _poll(), then raw_to_text on what it returned
ControlPoll ==
    LET p == Esp32Control_poll(message_buffer)
    IN  /\ inputPc # "idle"
        /\ message_buffer' = p.q
        /\ messages' = Esp32Control_raw_to_text(messages, p.ret)
        /\ pollLog' = IF p.ret # None THEN Append(pollLog, p.ret.val) ELSE pollLog
        /\ produced' = IF p.ret # None THEN Append(produced, p.ret.val) ELSE produced
        /\ ctl' = [InputCall("poll", messages) EXCEPT !.ret = p.ret]
        /\ UNCHANGED <<motorVars, running, readsAtStop, drainLog, drainGroups,
                       failedDrain>>
        /\ ThreadUnchanged

\* A call of Esp32Control.formatted_latest_buffer()
ControlDrain ==
    \E addOut \in SinkOutcomes, storeOut \in SinkOutcomes :
        LET r == Esp32Control_formatted_latest_buffer(messages, addOut, storeOut)
        IN  /\ inputPc # "idle"
            /\ messages' = r.messages
            /\ produced' = IF r.messages = <<>> THEN <<>> ELSE produced
            /\ ctl' = r.call
            /\ drainLog' = IF r.call.ret # None
                           THEN Append(drainLog, r.call.ret.val)
                           ELSE drainLog
            /\ drainGroups' = IF r.call.ret # None
                              THEN Append(drainGroups, produced)
                              ELSE drainGroups
            /\ failedDrain' = IF r.call.raised
                              THEN Some(messages[Len(messages)])
                              ELSE None
            /\ UNCHANGED <<motorVars, running, message_buffer, pollLog, readsAtStop>>
            /\ ThreadUnchanged

\* A call of Esp32Control.stop()
ControlStop ==
    /\ inputPc # "idle"
    /\ running' = FALSE
    /\ readsAtStop' = IF readsAtStop = -1 THEN Len(linesRead) ELSE readsAtStop
    /\ ctl' = InputCall("stop", messages)
    /\ UNCHANGED <<motorVars, messages, message_buffer, pollLog, produced,
                   drainLog, drainGroups, failedDrain>>
    /\ ThreadUnchanged

NextControl ==
    \/ InputLoopEnter
    \/ InputLoopExit
    \/ InputLoopLine
    \/ InputLoopBreak
    \/ ControlPoll
    \/ ControlDrain
    \/ ControlStop

----------------------------------------------------------------------------
\* State machine of the video source

\* no Esp32Control object; the fields of the instantiated plugin's calls
NoControl(src) ==
    /\ running = FALSE
    /\ messages = <<>>
    /\ message_buffer = <<>>
    /\ inputPc = "idle"
    /\ inputExit = "none"
    /\ linesRead = <<>>
    /\ readsAtStop = -1
    /\ putLog = <<>>
    /\ pollLog = <<>>
    /\ produced = <<>>
    /\ ctl = InputCall("init", <<>>)
    /\ source = src
    /\ drainLog = <<>>
    /\ drainGroups = <<>>
    /\ failedDrain = None

\* Esp32CamVideo.__init__: cv2.VideoCapture(stream_url) raises (cap stays
\* None), or gives a capture that reports opened or not opened
InitVideo ==
    /\ MotorAbsent
    /\ NoControl("video")
    /\ \E c \in {"None", "VideoCapture"}, o \in BOOLEAN :
          /\ (c = "None" => ~o)
          /\ cap = c
          /\ cap_is_opened = o
    /\ analyze_with_vlm \in BOOLEAN
    /\ vmessages = <<>>
    /\ vclock = 0
    /\ vconverted = 0
    /\ vstopped = FALSE
    /\ vreleases = 0
    /\ vreported = {}
    /\ vreturned = {}
    /\ StatusAbsent

VideoOthersUnchanged ==
    UNCHANGED <<motorVars, running, messages, message_buffer, inputPc, inputExit,
                linesRead, readsAtStop, putLog, pollLog, produced, source,
                drainLog, drainGroups, cap, analyze_with_vlm, statusVars>>

\* One poll cycle of the source: _poll(), then raw_to_text on what it returned
VideoPoll ==
    \E readOut \in {[ret |-> FALSE, frame |-> f] : f \in Frames}
                  \cup {[ret |-> TRUE, frame |-> f] : f \in Frames} :
        LET p == Esp32CamVideo_poll(cap, cap_is_opened, readOut)
            t == IF p.ret # None THEN vclock + 1 ELSE vclock
        IN  /\ source = "video"
            /\ t <= MaxFrames
            /\ vmessages' = Esp32CamVideo_raw_to_text(vmessages, p.ret,
                                                      analyze_with_vlm, t)
            /\ vclock' = t
            /\ vconverted' = IF p.ret # None THEN vconverted + 1 ELSE vconverted
            /\ ctl' = [InputCall("poll", vmessages) EXCEPT
                         !.ret = p.ret, !.reads = p.reads, !.releases = p.releases]
            /\ cap_is_opened' = p.isOpened
            /\ vreleases' = vreleases + p.releases
            /\ UNCHANGED <<vstopped, failedDrain, vreported, vreturned>>
            /\ VideoOthersUnchanged

\* A call of Esp32CamVideo.formatted_latest_buffer()
VideoDrain ==
    \E addOut \in SinkOutcomes :
        LET r == Esp32CamVideo_formatted_latest_buffer(vmessages, addOut)
        IN  /\ source = "video"
            /\ vmessages' = r.messages
            /\ vconverted' = IF r.messages = <<>> THEN 0 ELSE vconverted
            /\ ctl' = r.call
            /\ failedDrain' = IF r.call.raised
                              THEN Some(vmessages[Len(vmessages)])
                              ELSE None
            /\ vreported' = vreported \cup
                    { [timestamp |-> r.call.add_input[i].timestamp,
                       message |-> r.call.add_input[i].text] :
                      i \in 1..Len(r.call.add_input) }
            /\ vreturned' = IF r.call.ret # None
                            THEN vreturned \cup {vmessages[Len(vmessages)]}
                            ELSE vreturned
            /\ UNCHANGED <<cap_is_opened, vclock, vstopped, vreleases>>
            /\ VideoOthersUnchanged

\* A call of Esp32CamVideo.stop()
VideoStop ==
    LET r == Esp32CamVideo_stop(cap, cap_is_opened)
    IN  /\ source = "video"
        /\ cap_is_opened' = r.isOpened
        /\ vstopped' = TRUE
        /\ vreleases' = vreleases + r.releases
        /\ ctl' = [InputCall("stop", vmessages) EXCEPT !.releases = r.releases]
        /\ UNCHANGED <<vmessages, vclock, vconverted, failedDrain, vreported,
                       vreturned>>
        /\ VideoOthersUnchanged

NextVideo ==
    \/ VideoPoll
    \/ VideoDrain
    \/ VideoStop

----------------------------------------------------------------------------
\* State machine of the status source

\* StatusReporter.__init__
InitStatus ==
    /\ MotorAbsent
    /\ NoControl("status")
    /\ VideoAbsent
    /\ status_shared = <<>>
    /\ smessages = <<>>

StatusOthersUnchanged ==
    UNCHANGED <<motorVars, running, messages, message_buffer, inputPc, inputExit,
                linesRead, readsAtStop, putLog, pollLog, produced, source,
                drainLog, drainGroups, failedDrain, videoVars>>

\* One poll cycle of the source: _poll(), then raw_to_text on what it returned
StatusPoll ==
    \E shareOut \in SinkOutcomes :
        LET t == Len(status_shared) + 1
            p == StatusReporter_poll(status_shared, t, shareOut)
        IN  /\ source = "status"
            /\ Len(status_shared) < MaxStatus
            /\ status_shared' = p.shared
            /\ smessages' = IF p.raised
                            THEN smessages
                            ELSE StatusReporter_raw_to_text(smessages, p.ret, t)
            /\ ctl' = [InputCall("poll", smessages) EXCEPT
                         !.ret = p.ret, !.raised = p.raised]
            /\ StatusOthersUnchanged

\* A call of StatusReporter.raw_to_text(raw_input) on its own
StatusRawToText ==
    \E raw_input \in {None, Some(StatusSentinel)} :
        /\ source = "status"
        /\ Len(smessages) < MaxStatus
        /\ smessages' = StatusReporter_raw_to_text(smessages, raw_input,
                                                   Len(status_shared))
        /\ ctl' = InputCall("raw_to_text", smessages)
        /\ UNCHANGED status_shared
        /\ StatusOthersUnchanged

\* A call of StatusReporter.formatted_latest_buffer()
StatusDrain ==
    /\ source = "status"
    /\ ctl' = [InputCall("drain", smessages) EXCEPT
                 !.ret = StatusReporter_formatted_latest_buffer(smessages)]
    /\ UNCHANGED <<status_shared, smessages>>
    /\ StatusOthersUnchanged

NextStatus ==
    \/ StatusPoll
    \/ StatusRawToText
    \/ StatusDrain

\* One source is instantiated: the operator-command source, the video
\* source or the status source
InitSources == InitControl \/ InitVideo \/ InitStatus

NextSources == NextControl \/ NextVideo \/ NextStatus

SpecSources == InitSources /\ [][NextSources]_vars


----------------------------------------------------------------------------
\* Vocabulary of the properties

\* the handle the instantiated connector holds, and whether it is open
Handle == IF connector = "serial" THEN ser ELSE sock
HandleIsOpen == IF connector = "serial" THEN ser_is_open ELSE sock_is_open
OpenCalls == IF connector = "serial" THEN serOpenCalls ELSE sockOpenCalls

\* Connection Guard state: Connected = a handle is present and open
Connected == Handle # NoHandle /\ HandleIsOpen

\* Wire protocol table: the byte of the fixed code of each directive
WireCode ==
    ("forward" :> 70) @@ ("back" :> 66) @@ ("left" :> 76) @@
    ("right" :> 82) @@ ("stop" :> 83)

LineTerminator == <<10>>

WroteOnce == Len(call.writes) = 1
WriteFailed == Len(call.writes) = 1 /\ ~call.writes[1].ok
WriteSucceeded == Len(call.writes) = 1 /\ call.writes[1].ok

----------------------------------------------------------------------------
\* C1: SerialMotor.connect with a MotorInput carrying any of the five
\* MotorAction members, on a guard that is open or opens successfully,
\* performs exactly one write whose payload is the member's code followed by
\* '\n', and never takes the 'Unknown action' branch.
C1_SerialConnectWritesCode ==
    (call.conn = "serial" /\ call.op = "connect" /\ call.action \in MotorAction
        /\ call.ensured)
    => /\ WroteOnce
       /\ call.writes[1].payload = <<WireCode[call.action.value]>> \o LineTerminator
       /\ ~call.unknown

\* C2: WifiMotor.connect with any of the five MotorAction members, on a guard
\* whose socket exists or is created successfully, performs exactly one
\* sendto to (ip_address, port) whose payload is the bare one-character code.
C2_WifiConnectSendsCode ==
    (call.conn = "wifi" /\ call.op = "connect" /\ call.action \in MotorAction
        /\ call.ensured)
    => /\ WroteOnce
       /\ call.writes[1].payload = <<WireCode[call.action.value]>>
       /\ call.writes[1].target = <<WifiMotorConfig.ip_address, WifiMotorConfig.port>>

\* C3: when _ensure_connection returns false during connect, the dispatch
\* performs zero writes, raises nothing and leaves the guard without a handle.
C3_NoWriteWhenOpenFails ==
    (call.op = "connect" /\ ~call.ensured)
    => /\ call.writes = <<>>
       /\ ~call.raised
       /\ Handle = NoHandle

C3_Witness ==
    /\ call.op = "connect" /\ ~call.ensured /\ call.opens = 1
    /\ call.action.value = "forward"

\* C4: after a write/send raises during connect and the handle's close
\* succeeds, the guard holds no handle and nothing was raised to the caller;
\* the next _ensure_connection (called directly or by the next connect)
\* performs a new underlying open and never hands back the failed handle.
C4_AfterWriteFailure ==
    (call.op = "connect" /\ WriteFailed /\ call.closeOut = "ok")

C4_ResetAfterWriteFailure ==
    /\ [](C4_AfterWriteFailure => (Handle = NoHandle /\ ~call.raised))
    /\ [][(C4_AfterWriteFailure /\ call'.op \in {"ensure", "connect"})
            => /\ call'.opens = 1
               /\ Handle' # call.writes[1].h]_vars

C4_Witness ==
    /\ C4_AfterWriteFailure
    /\ Handle = NoHandle
    /\ OpenCalls < MaxOpens

\* C5: _ensure_connection is idempotent while Connected: a call on a guard
\* whose handle is open returns true, performs no underlying open and keeps
\* the held handle, and so does the _ensure_connection inside a successful
\* dispatch; the open stays performed exactly once.
C5_EnsureIdempotent ==
    [][/\ (Connected /\ call'.op = "ensure")
            => /\ call'.ret = "True"
               /\ call'.opens = 0
               /\ Handle' = Handle
               /\ OpenCalls' = OpenCalls
       /\ (Connected /\ call'.op = "connect" /\ WriteSucceeded')
            => /\ call'.opens = 0
               /\ Handle' = Handle
               /\ OpenCalls' = OpenCalls]_vars

C5_Witness ==
    /\ call.op = "ensure" /\ call.ret = "True" /\ call.opens = 0
    /\ call.before # NoHandle /\ Handle = call.before
    /\ OpenCalls = 1

\* C6: when the underlying open raises, _ensure_connection returns false,
\* raises nothing and leaves the guard with no handle, whether it held no
\* handle before or a handle that reports not open.
C6_OpenFailure ==
    (call.opens = 1 /\ ~call.openOk)
    => /\ ~call.ensured
       /\ (call.op = "ensure" => call.ret = "False")
       /\ ~call.raised
       /\ Handle = NoHandle

C6_Witness ==
    /\ call.op = "ensure" /\ call.opens = 1 /\ ~call.openOk
    /\ call.before # NoHandle /\ ~call.beforeOpen

\* C7: the guard state changes only from Disconnected to Connected in a step
\* whose open succeeds, and from Connected to Disconnected in a step that is
\* a close() or a write/send failure.
C7_Transitions ==
    [][\/ Connected' = Connected
       \/ /\ ~Connected /\ Connected'
          /\ call'.opens = 1 /\ call'.openOk
       \/ /\ Connected /\ ~Connected'
          /\ (call'.op = "close" \/ WriteFailed')]_vars

C7_Witness ==
    /\ call.op = "close" /\ call.before # NoHandle /\ call.beforeOpen
    /\ ~Connected
    /\ OpenCalls >= 1

\* C8: a write/send is only ever issued on a handle in the open state: every
\* write of connect follows a true _ensure_connection of the same call and
\* goes to the held handle, never to one that was closed or discarded.
C8_WriteOnlyOnOpenHandle ==
    \A i \in 1..Len(call.writes) :
        /\ call.ensured
        /\ call.writes[i].h # NoHandle
        /\ call.writes[i].wasOpen

\* C9: no automatic retry: one connect performs at most one open attempt and
\* at most one write attempt, and what it writes is the code of its own
\* command only (a command dropped by an earlier call is never sent later).
C9_NoRetry ==
    call.op = "connect"
    => /\ call.opens <= 1
       /\ Len(call.writes) <= 1
       /\ \A i \in 1..Len(call.writes) :
            /\ call.action.value \in DOMAIN WireCode
            /\ call.writes[i].payload =
                 IF call.conn = "serial"
                 THEN <<WireCode[call.action.value]>> \o LineTerminator
                 ELSE <<WireCode[call.action.value]>>

C9_Witness ==
    /\ call.op = "connect" /\ WriteFailed
    /\ Handle = NoHandle

\* C10: serial connector: when a write fails and the close of the serial
\* handle fails too, the close failure is swallowed, the guard ends with no
\* handle and connect returns without raising.
C10_SerialCloseFailureSwallowed ==
    (call.conn = "serial" /\ call.op = "connect" /\ WriteFailed
        /\ call.closeOut \in {"raise_closed", "raise_open"})
    => /\ ser = NoHandle
       /\ ~call.raised

C10_Witness ==
    /\ call.conn = "serial" /\ call.op = "connect" /\ WriteFailed
    /\ call.closeOut \in {"raise_closed", "raise_open"}
    /\ ser = NoHandle

----------------------------------------------------------------------------
\* C11: UDP connector: when a send fails and the close of the socket fails
\* too, the close failure is swallowed, the guard ends with no socket and
\* connect returns without raising.
C11_WifiCloseFailureSwallowed ==
    (call.conn = "wifi" /\ call.op = "connect" /\ WriteFailed
        /\ call.closeOut \in {"raise_closed", "raise_open"})
    => /\ sock = NoHandle
       /\ ~call.raised

\* an action value that is none of the five mapped directives
UnmappedAction == call.action.value \notin DOMAIN WireCode

\* C12 as stated: for any action value that is not one of the five mapped
\* directives, connect performs zero writes/sends, reports 'Unknown action'
\* and returns without raising.
C12_UnknownActionReported ==
    (call.op = "connect" /\ UnmappedAction)
    => /\ call.writes = <<>>
       /\ call.unknown
       /\ ~call.raised

\* C12 as amended: for such an action value connect performs zero
\* writes/sends and returns without raising; it reports 'Unknown action'
\* exactly when _ensure_connection returned true (after a failed open it
\* returns before the lookup and reports nothing about the action).
C12_UnknownActionNeverSent ==
    (call.op = "connect" /\ UnmappedAction)
    => /\ call.writes = <<>>
       /\ call.unknown = call.ensured
       /\ ~call.raised

C12_Witness ==
    /\ call.op = "connect" /\ call.action.value = "jump"
    /\ call.ensured /\ call.unknown
    /\ call.writes = <<>>

----------------------------------------------------------------------------
\* Vocabulary of the properties of the sources

ControlInstantiated == inputPc # "idle"
VideoInstantiated == source = "video"
StatusInstantiated == source = "status"

\* the text buffer of the instantiated source
Buffer == IF ControlInstantiated THEN messages ELSE vmessages

\* a step of the poll loop or of the consumer (every step of input_thread
\* moves inputPc) that was a call of the given kind
MainStep(op) == inputPc' = inputPc /\ ctl'.op = op

\* a line with a character that is not whitespace
NonBlank(line) == \E i \in 1..Len(line) : ~IsSpace(line[i])

\* texts joined by single spaces, in order
RECURSIVE JoinedBySpaces(_)
JoinedBySpaces(texts) ==
    IF Len(texts) = 1
    THEN texts[1]
    ELSE JoinedBySpaces(SubSeq(texts, 1, Len(texts) - 1))
            \o <<" ">> \o texts[Len(texts)]

Last(seq) == seq[Len(seq)]

\* the envelope the drain of each source returns for a raw text
ControlEnvelope(text) == <<"User Command: ">> \o text
VideoEnvelope(text) ==
    <<"\nINPUT: ", "ESP32-CAM Video", "\n// START\n">> \o text \o <<"\n// END\n">>

----------------------------------------------------------------------------
\* C13: drain is idempotent-to-empty for both sources: when
\* formatted_latest_buffer has returned a value, an immediately following
\* call (no production in between) returns None; and the first call on the
\* buffer as constructed returns None.
C13_DrainIdempotentToEmpty ==
    [][/\ (ctl.op = "drain" /\ ctl.ret # None /\ MainStep("drain"))
            => ctl'.ret = None
       /\ (ctl.op = "init" /\ MainStep("drain"))
            => ctl'.ret = None]_vars

C13_Witness ==
    /\ ctl.op = "drain" /\ ctl.ret # None
    /\ Buffer = <<>>

\* C14: append-and-concatenate: after messages m1..mn (n >= 1) were produced
\* through raw_to_text since the buffer was empty, the buffer has exactly one
\* entry, whose text is m1..mn joined by single spaces in production order.
C14_AppendAndConcatenate ==
    (ControlInstantiated /\ Len(produced) >= 1)
    => /\ Len(messages) = 1
       /\ messages[1] = JoinedBySpaces(produced)

C14_Witness ==
    /\ produced = << <<"a">>, <<" ", "b">>, <<"a">> >>
    /\ messages = << <<"a", " ", " ", "b", " ", "a">> >>

C16_RawText == IF ControlInstantiated THEN Last(ctl.before) ELSE Last(ctl.before).message

C17_EnqueueRule ==
    ControlInstantiated => putLog = SelectSeq(linesRead, NonBlank)

C17_Witness ==
    /\ linesRead = << <<" ">>, <<" ", "b">>, <<>> >>
    /\ putLog = << <<" ", "b">> >>

\* C18: each _poll removes and returns exactly the oldest line of the queue,
\* one line per cycle; on an empty queue it returns None, produces no
\* Message and leaves the queue and the text buffer unchanged, whether or
\* not stop() has been called.
C18_Poll ==
    [][(ControlInstantiated /\ MainStep("poll"))
        => IF Len(message_buffer) > 0
           THEN /\ ctl'.ret = Some(Head(message_buffer))
                /\ message_buffer' = Tail(message_buffer)
                /\ pollLog' = Append(pollLog, Head(message_buffer))
           ELSE /\ ctl'.ret = None
                /\ message_buffer' = message_buffer
                /\ messages' = messages
                /\ pollLog' = pollLog]_vars

C18_Witness ==
    /\ ctl.op = "poll" /\ ctl.ret = None /\ ~running
    /\ Len(pollLog) >= 2
    /\ message_buffer = <<>>

\* C19: under any interleaving of the thread's puts with the poll loop's
\* get_nowait calls, every line put is returned by exactly one poll or is
\* still queued, and lines are returned in the order they were put.
C19_QueueHandoff ==
    ControlInstantiated => putLog = pollLog \o message_buffer

C19_Witness ==
    /\ Len(pollLog) = 2 /\ Len(message_buffer) = 1
    /\ ctl.op = "poll" /\ inputPc = "top"

\* the operator-input thread runs when it is runnable
SpecSourcesFair ==
    SpecSources /\ WF_vars(InputLoopEnter) /\ WF_vars(InputLoopExit)

\* C20: stop() only clears the running flag and does not interrupt a read in
\* progress; a non-blank line returned by the read that was pending when
\* stop() ran is still enqueued; the thread starts no read after that one
\* and, back at the top of its loop, terminates.
C20_BestEffortCancellation ==
    /\ [][(running /\ ~running')
            => UNCHANGED <<inputPc, inputExit, message_buffer, linesRead,
                           putLog, messages>>]_vars
    /\ [][(~running /\ inputPc = "input" /\ linesRead' # linesRead
             /\ NonBlank(Last(linesRead')))
            => /\ message_buffer' = Append(message_buffer, Last(linesRead'))
               /\ inputPc' = "top"]_vars
    /\ [](readsAtStop >= 0 => Len(linesRead) <= readsAtStop + 1)
    /\ [][(~running /\ inputPc # "input") => inputPc' # "input"]_vars
    /\ ((~running /\ inputPc = "top") ~> (inputPc = "done"))

C20_Witness ==
    /\ ~running /\ inputPc = "done" /\ inputExit = "flag"
    /\ readsAtStop = 0 /\ linesRead = << <<"a">> >>
    /\ putLog = << <<"a">> >>

\* the read of the input thread has signalled end-of-input or raised
ReadFailed == inputExit \in {"EOFError", "Exception"}

\* C21: bridge termination: once input() signals end-of-input or raises, the
\* thread has returned (the error is handled in _input_loop, not propagated)
\* and stays returned, no line is put on the queue afterwards, and once the
\* queue has been emptied every later poll returns None.
C21_BridgeTermination ==
    /\ [](ReadFailed => inputPc = "done")
    /\ [][ReadFailed' /\ ~ReadFailed
            => /\ message_buffer' = message_buffer
               /\ putLog' = putLog]_vars
    /\ [][ReadFailed
            => /\ inputPc' = "done"
               /\ putLog' = putLog
               /\ linesRead' = linesRead
               /\ \/ message_buffer' = message_buffer
                  \/ MainStep("poll") /\ message_buffer' = Tail(message_buffer)]_vars
    /\ [][(ReadFailed /\ message_buffer = <<>> /\ MainStep("poll"))
            => /\ ctl'.ret = None
               /\ messages' = messages]_vars

C21_Witness ==
    /\ inputExit = "Exception" /\ inputPc = "done"
    /\ Len(pollLog) >= 1 /\ message_buffer = <<>>
    /\ ctl.op = "poll" /\ ctl.ret = None

\* C22: the input thread hands results over only through the queue: a step
\* of the thread changes neither messages nor running nor any other state of
\* the source, and changes the queue only by adding the line just read.
C22_ThreadSharesOnlyQueue ==
    [][inputPc' # inputPc
        => /\ UNCHANGED <<messages, running, produced, pollLog, ctl, readsAtStop,
                          source, drainLog, drainGroups, failedDrain>>
           /\ UNCHANGED <<motorVars, videoVars, statusVars>>
           /\ \/ message_buffer' = message_buffer
              \/ /\ linesRead' # linesRead
                 /\ message_buffer' = Append(message_buffer, Last(linesRead'))]_vars

C22_Witness ==
    /\ inputPc = "top" /\ running
    /\ Len(putLog) = 2 /\ message_buffer = putLog
    /\ messages = <<>> /\ ctl.op = "init"

C24_NoCapture ==
    [][(VideoInstantiated /\ MainStep("poll") /\ (cap = "None" \/ ~cap_is_opened))
        => /\ ctl'.ret = None
           /\ ctl'.reads = 0
           /\ ~ctl'.raised
           /\ vmessages' = vmessages
           /\ vclock' = vclock]_vars

C24_Witness ==
    /\ VideoInstantiated /\ ~vstopped
    /\ cap = "VideoCapture" /\ ~cap_is_opened
    /\ ctl.op = "poll" /\ ctl.ret = None /\ ctl.reads = 0

\* a poll cycle of the video source in which cap.read() reported failure
FailedRead(c) == c.op = "poll" /\ c.reads = 1 /\ c.ret = None

\* C25: a failed frame read yields no frame and does not tear the source
\* down: the capture is neither released nor replaced, the buffer is as it
\* was, a poll cycle on the open capture reads again, and only stop() ever
\* releases the capture.
C25_FailedReadKeepsCapture ==
    /\ [][(VideoInstantiated /\ MainStep("poll") /\ FailedRead(ctl'))
            => /\ vmessages' = vmessages
               /\ cap' = cap
               /\ cap_is_opened' = cap_is_opened
               /\ ctl'.releases = 0
               /\ ~ctl'.raised]_vars
    /\ []((VideoInstantiated /\ FailedRead(ctl))
            => (cap = "VideoCapture" /\ cap_is_opened))
    /\ [][(VideoInstantiated /\ MainStep("poll") /\ cap = "VideoCapture"
             /\ cap_is_opened)
            => ctl'.reads = 1]_vars
    /\ [][vreleases' # vreleases => MainStep("stop")]_vars

C25_Witness ==
    /\ VideoInstantiated
    /\ FailedRead(ctl) /\ Len(ctl.before) >= 1
    /\ vmessages = ctl.before
    /\ cap_is_opened /\ vreleases = 0

\* C26: stop() on a video source whose capture is open releases the capture
\* exactly once; a later stop() releases nothing; and after stop() no poll
\* cycle yields a frame or adds a Message to the buffer.
C26_VideoCancellation ==
    /\ [][(VideoInstantiated /\ MainStep("stop") /\ cap_is_opened)
            => /\ ctl'.releases = 1
               /\ vreleases' = vreleases + 1
               /\ ~cap_is_opened']_vars
    /\ [][(VideoInstantiated /\ vstopped)
            => /\ vreleases' = vreleases
               /\ ~cap_is_opened']_vars
    /\ [](vreleases <= 1)
    /\ [][(VideoInstantiated /\ vstopped /\ MainStep("poll"))
            => /\ ctl'.ret = None
               /\ vmessages' = vmessages]_vars

C26_Witness ==
    /\ VideoInstantiated /\ vstopped /\ vreleases = 1
    /\ ctl.op = "poll" /\ ctl.ret = None
    /\ Len(vmessages) >= 1

SpecDeliveryFair ==
    SpecSources /\ WF_vars(ControlPoll) /\ WF_vars(ControlDrain)

\* the groups of lines, one after the other
RECURSIVE Concat(_)
Concat(groups) ==
    IF groups = <<>> THEN <<>> ELSE Head(groups) \o Concat(Tail(groups))

\* the lines that have appeared in the text returned by a drain
Delivered == Concat(drainGroups)

\* every drain so far returned the envelope of a group of consecutive
\* enqueued lines joined by single spaces, and the groups, followed by the
\* lines in the text buffer and those in the queue, are the enqueued lines
DeliveryInOrder ==
    ControlInstantiated
    => /\ Len(drainLog) = Len(drainGroups)
       /\ \A i \in 1..Len(drainLog) :
             /\ Len(drainGroups[i]) >= 1
             /\ drainLog[i] = ControlEnvelope(JoinedBySpaces(drainGroups[i]))
       /\ putLog = Delivered \o produced \o message_buffer

\* every enqueued line eventually appears in a drain result: the thread
\* reads at most MaxLines lines, so from some point on the delivered lines
\* are all the enqueued lines
EveryLineDelivered == <>[](ControlInstantiated => Delivered = putLog)

\* a drain in which a collaborator raised is followed by one that returns:
\* time and again the latest drain is not one that raised
DrainsEventuallyReturn == []<>(failedDrain = None)

IsPrefix(a, b) == Len(a) <= Len(b) /\ SubSeq(b, 1, Len(a)) = a

\* the one add_input call of a drain forwarded the given buffer entry
ForwardsEntry(c, entry) ==
    /\ Len(c.add_input) = 1
    /\ IF ControlInstantiated
       THEN c.add_input[1].text = entry
       ELSE /\ c.add_input[1].text = entry.message
            /\ c.add_input[1].timestamp = entry.timestamp

\* a drain in which a collaborator raises leaves the buffer as it was
BufferKeptOnRaise ==
    [][(MainStep("drain") /\ ctl'.raised)
        => /\ Buffer # <<>>
           /\ Buffer' = Buffer
           /\ ForwardsEntry(ctl', Last(Buffer))]_vars

EarlierBuffered == { vmessages[i] : i \in 1..(Len(vmessages) - 1) }

\* the video buffer grows by one Message per converted frame, and a drain
\* that returns gives add_input and the consumer the latest Message only,
\* and empties the buffer
LatestOnly ==
    /\ [](VideoInstantiated => Len(vmessages) = vconverted)
    /\ [][(VideoInstantiated /\ MainStep("drain") /\ ~ctl'.raised
             /\ vmessages # <<>>)
            => /\ ForwardsEntry(ctl', Last(vmessages))
               /\ ctl'.ret = Some(VideoEnvelope(Last(vmessages).message))
               /\ vmessages' = <<>>
               /\ vreturned' = vreturned \cup {Last(vmessages)}]_vars
    /\ [][VideoInstantiated
            => \A m \in (vreported' \ vreported) \cup (vreturned' \ vreturned) :
                  vmessages # <<>> /\ m = Last(vmessages)]_vars

\* C31 as stated: the video buffer holds as many Messages as frames were
\* converted since the last drain, a drain forwards only the latest of them,
\* and every earlier buffered Message is discarded without ever having been
\* given to the consumer or to the provenance sink.
C31_EarlierNeverReported ==
    /\ LatestOnly
    /\ [][(VideoInstantiated /\ MainStep("drain") /\ ~ctl'.raised)
            => \A m \in EarlierBuffered :
                  m \notin vreturned' /\ m \notin vreported']_vars

\* C31, amended: as above, except that an earlier buffered Message may have
\* been given to the provenance sink by a drain in which add_input raised
\* while it was the latest; it is never returned to the consumer, and no
\* drain that returned has forwarded it.
C31_EarlierNeverReturned ==
    /\ LatestOnly
    /\ [][(VideoInstantiated /\ MainStep("drain") /\ ~ctl'.raised)
            => \A m \in EarlierBuffered : m \notin vreturned']_vars
    /\ [][(VideoInstantiated /\ vreported' # vreported)
            => /\ MainStep("drain")
               /\ vmessages # <<>>
               /\ vreported' = vreported \cup {Last(vmessages)}
               /\ ctl'.raised <=> Last(vmessages) \notin vreturned']_vars

C31_Witness ==
    /\ VideoInstantiated
    /\ ctl.op = "drain" /\ ~ctl.raised /\ Len(ctl.before) = 3
    /\ vmessages = <<>>
    /\ ctl.before[1] \in vreported
    /\ vreturned = {ctl.before[3]}

====
